---------------------------- MODULE Spec2Model ----------------------------
(***************************************************************************)
(* elastag / elasconf: dictionaries keyed by configurations (sets of       *)
(* attribute-value pairs) with "elastic" retrieval of the most specific    *)
(* stored configuration included in a query.                               *)
(*                                                                         *)
(* el is an ElasTag instance and ec an ElasConf instance.  The operations  *)
(* the two classes share (item assignment, append, item access, `in`,      *)
(* haskey) are issued to both objects with the same arguments; add, all    *)
(* and bag exist in ElasTag only.                                          *)
(***************************************************************************)
EXTENDS Integers, Sequences, FiniteSets, TLC

(***************************************************************************)
(* Bounds and input alphabets                                              *)
(***************************************************************************)
\* number of mutating calls (item assignment, append, add) in a run
MaxWrites == 3

\* attribute names and, for each, the attribute values used in the calls
Attrs == {"lang", "sector"}
AttrVals == [lang |-> {"en", "es"}, sector |-> {"c"}]

\* the string objects stored by the calls
Atoms == {"a", "b"}

\* position of an attribute name in Python's string order
StrOrd == [lang |-> 1, sector |-> 2]

\* the attribute values used in the mutating calls
WriteVals == [lang |-> {"en"}, sector |-> {"c"}]

\* the dict arguments `key` of the calls: mappings attribute -> value
ConfigsOver(vals) ==
  UNION {{f \in [D -> UNION {vals[a] : a \in Attrs}] :
            \A a \in D : f[a] \in vals[a]} : D \in SUBSET Attrs}

Configs == ConfigsOver(AttrVals)
WriteConfigs == ConfigsOver(WriteVals)

(***************************************************************************)
(* Python objects held in the dictionaries.  Every object is a record      *)
(*   t : its type, "str", "list" or "set"                                  *)
(*   m : the characters of a str (one atom) or the members of a set        *)
(*   l : the items of a list, each itself an Item (a str or a set)         *)
(***************************************************************************)
Item(t, m) == [t |-> t, m |-> m]
Obj(t, m, l) == [t |-> t, m |-> m, l |-> l]

Str(a) == Obj("str", {a}, <<>>)
PySet(m) == Obj("set", m, <<>>)
PyList(l) == Obj("list", {}, l)
NoObj == Obj("none", {}, <<>>)

\* an object as an item of a list, and back
AsItem(o) == Item(o.t, o.m)
AsObj(i) == Obj(i.t, i.m, <<>>)

isinstance(o, t) == o.t = t

\* hash(o) succeeds: list and set objects are unhashable
Hashable(o) == o.t = "str"

(***************************************************************************)
(* dict: a sequence of entries [k, v] in iteration order, keys distinct    *)
(***************************************************************************)
Range(s) == {s[i] : i \in 1..Len(s)}

keys(d) == [i \in 1..Len(d) |-> d[i].k]

dict_contains(d, k) == \E i \in 1..Len(d) : d[i].k = k

dict_getitem(d, k) == d[CHOOSE i \in 1..Len(d) : d[i].k = k].v

InsertAt(s, pos, e) ==
  SubSeq(s, 1, pos - 1) \o <<e>> \o SubSeq(s, pos, Len(s))

\* d[k] = v.  An existing key keeps its place; a new key lands at place pos
\* of the iteration order (hash order in Python 2, last place in 3.7+).
dict_setitem(d, k, v, pos) ==
  IF dict_contains(d, k)
    THEN [i \in 1..Len(d) |-> IF d[i].k = k THEN [k |-> k, v |-> v] ELSE d[i]]
    ELSE InsertAt(d, pos, [k |-> k, v |-> v])

(***************************************************************************)
(* __confid: the pairs of kw sorted by attribute name, as a tuple          *)
(***************************************************************************)
\* kw.keys(): the attribute names of kw as a list, in the order of the dict
kw_keys(kw) ==
  CHOOSE ks \in [1..Cardinality(DOMAIN kw) -> DOMAIN kw] : Range(ks) = DOMAIN kw

\* sorted left out: the names in the order the dict gave them
sorted_not(ks) == ks

\* sorted(ks) for a list of attribute names: smallest name first
RECURSIVE sorted(_)
sorted(ks) ==
  IF Len(ks) = 0 THEN <<>>
  ELSE LET i == CHOOSE i \in 1..Len(ks) :
                  \A j \in 1..Len(ks) : StrOrd[ks[i]] <= StrOrd[ks[j]]
       IN <<ks[i]>> \o sorted(SubSeq(ks, 1, i - 1) \o SubSeq(ks, i + 1, Len(ks)))

\* the tuple __confid builds when kw.keys() is the list ks
confid_of(ks, kw) ==
  LET s == sorted(ks)
  IN [i \in 1..Len(s) |-> <<s[i], kw[s[i]]>>]

confid(kw) == confid_of(kw_keys(kw), kw)

\* set(c) for a tuple c of pairs
set(c) == Range(c)

(***************************************************************************)
(* __translate_key                                                         *)
(***************************************************************************)
\* sorted(ks, key=len, reverse=True): stable, longest first
RECURSIVE sorted_len_reverse(_, _)
sorted_len_reverse(ks, n) ==
  IF n < 0 THEN <<>>
  ELSE SelectSeq(ks, LAMBDA c : Len(c) = n) \o sorted_len_reverse(ks, n - 1)

MaxKeyLen(ks) ==
  IF Len(ks) = 0 THEN 0
  ELSE CHOOSE n \in {Len(ks[i]) : i \in 1..Len(ks)} :
         \A i \in 1..Len(ks) : Len(ks[i]) <= n

Reverse(s) == [i \in 1..Len(s) |-> s[Len(s) + 1 - i]]

\* result [found, k]: found = FALSE stands for None
None == [found |-> FALSE, k |-> <<>>]

\* translate_key with the sort not reversed: shortest stored key first
translate_key_shortest(d, key) ==
  LET config == set(confid(key))
      cs == Reverse(sorted_len_reverse(keys(d), MaxKeyLen(keys(d))))
      hits == SelectSeq(cs, LAMBDA c : set(c) \subseteq config)
  IN IF Len(hits) > 0 THEN [found |-> TRUE, k |-> hits[1]] ELSE None

\* translate_key with < in place of <=: proper subsets only
translate_key_strict(d, key) ==
  LET config == set(confid(key))
      cs == sorted_len_reverse(keys(d), MaxKeyLen(keys(d)))
      hits == SelectSeq(cs, LAMBDA c : set(c) \subseteq config /\ set(c) # config)
  IN IF Len(hits) > 0 THEN [found |-> TRUE, k |-> hits[1]] ELSE None

\* translate_key without the sort: the first stored key included in the query
translate_key_unsorted(d, key) ==
  LET config == set(confid(key))
      hits == SelectSeq(keys(d), LAMBDA c : set(c) \subseteq config)
  IN IF Len(hits) > 0 THEN [found |-> TRUE, k |-> hits[1]] ELSE None

translate_key(d, key) ==
  LET config == set(confid(key))
      cs == sorted_len_reverse(keys(d), MaxKeyLen(keys(d)))
      hits == SelectSeq(cs, LAMBDA c : set(c) \subseteq config)
  IN IF Len(hits) > 0 THEN [found |-> TRUE, k |-> hits[1]] ELSE None

\* ElasConf.__confid and ElasConf.__translate_key
ElasConf_confid(kw) ==
  LET s == sorted(kw_keys(kw))
  IN [i \in 1..Len(s) |-> <<s[i], kw[s[i]]>>]

\* ElasConf.__translate_key scanning the shortest stored keys first
ElasConf_translate_key_shortest(d, key) ==
  LET config == set(ElasConf_confid(key))
      cs == Reverse(sorted_len_reverse(keys(d), MaxKeyLen(keys(d))))
      hits == SelectSeq(cs, LAMBDA c : set(c) \subseteq config)
  IN IF Len(hits) > 0 THEN [found |-> TRUE, k |-> hits[1]] ELSE None

ElasConf_translate_key(d, key) ==
  LET config == set(ElasConf_confid(key))
      cs == sorted_len_reverse(keys(d), MaxKeyLen(keys(d)))
      hits == SelectSeq(cs, LAMBDA c : set(c) \subseteq config)
  IN IF Len(hits) > 0 THEN [found |-> TRUE, k |-> hits[1]] ELSE None

(***************************************************************************)
(* Results of a call: st is "ok" or the exception raised, ret the object   *)
(* returned (NoObj when the call returns None or a bool, given in b)       *)
(***************************************************************************)
Ok(o) == [st |-> "ok", ret |-> o]
Raise(e) == [st |-> e, ret |-> NoObj]

\* the only member of the one-character set m of a str object
AtomOf(o) == CHOOSE a \in o.m : TRUE

(***************************************************************************)
(* ElasTag.__getitem__ / ElasConf.__getitem__                              *)
(***************************************************************************)
getitem(d, key) ==
  LET k == translate_key(d, key)
  IN IF k # None THEN Ok(dict_getitem(d, k.k)) ELSE Raise("KeyError")

ElasConf_getitem(d, key) ==
  LET k == ElasConf_translate_key(d, key)
  IN IF k # None THEN Ok(dict_getitem(d, k.k)) ELSE Raise("KeyError")

(***************************************************************************)
(* `key in el`: the truth value of what __contains__ returns               *)
(***************************************************************************)
\* bool(x) for x a tuple or None
bool(x) == x # None /\ Len(x.k) > 0

\* ElasTag.__contains__ returns the translated key itself
ElasTag_contains(d, key) == bool(translate_key(d, key))

\* ElasConf.__contains__ compares the translated key with None
ElasConf_contains(d, key) == ElasConf_translate_key(d, key) # None

(***************************************************************************)
(* haskey                                                                  *)
(***************************************************************************)
ElasTag_haskey(d, key) == dict_contains(d, confid(key))

\* ElasConf.haskey is `key in self`
ElasConf_haskey(d, key) == ElasConf_contains(d, key)

(***************************************************************************)
(* __setitem__, append, add: the dictionary after the call and the result  *)
(***************************************************************************)
\* __setitem__ that leaves an entry already there as it is (setdefault)
setitem_keep(d, key, val, pos) ==
  [d |-> IF dict_contains(d, confid(key)) THEN d
         ELSE dict_setitem(d, confid(key), val, pos),
   r |-> Ok(NoObj)]

setitem(d, key, val, pos) ==
  [d |-> dict_setitem(d, confid(key), val, pos), r |-> Ok(NoObj)]

\* append whose promotion of a non-list entry drops the object it held
append_drop_prev(d, key, val, pos) ==
  LET config == confid(key)
      prev == IF dict_contains(d, config) THEN dict_getitem(d, config) ELSE NoObj
      new == IF isinstance(prev, "list")
               THEN PyList(Append(prev.l, AsItem(val)))
               ELSE PyList(<<AsItem(val)>>)
  IN [d |-> dict_setitem(d, config, new, pos), r |-> Ok(new)]

\* append that looks the entry up with the elastic match of __translate_key
append_elastic(d, key, val, pos) ==
  LET t == translate_key(d, key)
      config == IF t # None THEN t.k ELSE confid(key)
      prev == IF t # None THEN dict_getitem(d, config) ELSE NoObj
      new == IF t = None THEN PyList(<<AsItem(val)>>)
             ELSE IF isinstance(prev, "list")
               THEN PyList(Append(prev.l, AsItem(val)))
               ELSE PyList(<<AsItem(prev), AsItem(val)>>)
  IN [d |-> dict_setitem(d, config, new, pos), r |-> Ok(new)]

append(d, key, val, pos) ==
  LET config == confid(key)
  IN IF dict_contains(d, config)
       THEN LET prev == dict_getitem(d, config)
            IN IF isinstance(prev, "list")
                 THEN \* prev.append(val) changes the stored list itself
                      LET new == PyList(Append(prev.l, AsItem(val)))
                      IN [d |-> dict_setitem(d, config, new, pos), r |-> Ok(new)]
                 ELSE LET new == PyList(<<AsItem(prev), AsItem(val)>>)
                      IN [d |-> dict_setitem(d, config, new, pos), r |-> Ok(new)]
       ELSE LET new == PyList(<<AsItem(val)>>)
            IN [d |-> dict_setitem(d, config, new, pos), r |-> Ok(new)]

\* add written as a copy of append: it accumulates a list
add_like_append(d, key, val, pos) == append(d, key, val, pos)

\* add that takes the entry out of the dictionary (pop) before building the
\* set, so that a failure to build it loses the entry
add_pop_first(d, key, val, pos) ==
  LET config == confid(key)
  IN IF dict_contains(d, config)
       THEN LET prev == dict_getitem(d, config)
                rest == SelectSeq(d, LAMBDA e : e.k # config)
            IN IF isinstance(prev, "set")
                 THEN LET new == PySet(prev.m \cup {AtomOf(val)})
                      IN [d |-> dict_setitem(d, config, new, pos), r |-> Ok(new)]
                 ELSE IF Hashable(prev)
                        THEN LET new == PySet({AtomOf(prev), AtomOf(val)})
                             IN [d |-> dict_setitem(d, config, new, pos),
                                 r |-> Ok(new)]
                        ELSE [d |-> rest, r |-> Raise("TypeError")]
       ELSE LET new == PySet({AtomOf(val)})
            IN [d |-> dict_setitem(d, config, new, pos), r |-> Ok(new)]

add(d, key, val, pos) ==
  LET config == confid(key)
  IN IF dict_contains(d, config)
       THEN LET prev == dict_getitem(d, config)
            IN IF isinstance(prev, "set")
                 THEN \* prev.add(val) changes the stored set itself
                      LET new == PySet(prev.m \cup {AtomOf(val)})
                      IN [d |-> dict_setitem(d, config, new, pos), r |-> Ok(new)]
                 ELSE \* set([prev, val]) hashes prev: a list is unhashable
                      IF Hashable(prev)
                        THEN LET new == PySet({AtomOf(prev), AtomOf(val)})
                             IN [d |-> dict_setitem(d, config, new, pos),
                                 r |-> Ok(new)]
                        ELSE [d |-> d, r |-> Raise("TypeError")]
       ELSE LET new == PySet({AtomOf(val)})
            IN [d |-> dict_setitem(d, config, new, pos), r |-> Ok(new)]

(***************************************************************************)
(* ElasConf.__setitem__, ElasConf.append                                   *)
(***************************************************************************)
ElasConf_setitem(d, key, val, pos) ==
  [d |-> dict_setitem(d, ElasConf_confid(key), val, pos), r |-> Ok(NoObj)]

ElasConf_append(d, key, val, pos) ==
  LET config == ElasConf_confid(key)
  IN IF dict_contains(d, config)
       THEN LET prev == dict_getitem(d, config)
            IN IF isinstance(prev, "list")
                 THEN LET new == PyList(Append(prev.l, AsItem(val)))
                      IN [d |-> dict_setitem(d, config, new, pos), r |-> Ok(new)]
                 ELSE LET new == PyList(<<AsItem(prev), AsItem(val)>>)
                      IN [d |-> dict_setitem(d, config, new, pos), r |-> Ok(new)]
       ELSE LET new == PyList(<<AsItem(val)>>)
            IN [d |-> dict_setitem(d, config, new, pos), r |-> Ok(new)]

(***************************************************************************)
(* all, bag                                                                *)
(***************************************************************************)
\* the loop of all() with as_set false, from entry i on, out so far
RECURSIVE all_list(_, _, _, _)
all_list(d, config, i, out) ==
  IF i > Len(d) THEN Ok(PyList(out))
  ELSE IF config \subseteq set(d[i].k)
    THEN LET val == d[i].v
         IN IF isinstance(val, "list")
              THEN all_list(d, config, i + 1, out \o val.l)
              ELSE all_list(d, config, i + 1, Append(out, AsItem(val)))
    ELSE all_list(d, config, i + 1, out)

\* the loop of all() with as_set true
RECURSIVE all_set(_, _, _, _)
all_set(d, config, i, out) ==
  IF i > Len(d) THEN Ok(PySet(out))
  ELSE IF config \subseteq set(d[i].k)
    THEN LET val == d[i].v
         IN IF isinstance(val, "set")
              THEN all_set(d, config, i + 1, out \cup val.m)
              ELSE IF isinstance(val, "list")
                THEN \* set(val) hashes every item of the list
                     IF \A j \in 1..Len(val.l) : Hashable(AsObj(val.l[j]))
                       THEN all_set(d, config, i + 1,
                              out \cup {AtomOf(val.l[j]) : j \in 1..Len(val.l)})
                       ELSE Raise("TypeError")
                ELSE all_set(d, config, i + 1, out \cup {AtomOf(val)})
    ELSE all_set(d, config, i + 1, out)

\* the empty dict that replaces key = None
EmptyKw == [a \in {} |-> "en"]

all(d, nokey, kw, as_set) ==
  LET key == IF nokey THEN EmptyKw ELSE kw
      config == set(confid(key))
  IN IF as_set THEN all_set(d, config, 1, {}) ELSE all_list(d, config, 1, <<>>)

bag(d, nokey, kw) == all(d, nokey, kw, TRUE)

(***************************************************************************)
(* State                                                                   *)
(***************************************************************************)
VARIABLES
  el,     \* the ElasTag dictionary
  ec,     \* the ElasConf dictionary
  n,      \* number of mutating calls made
  last    \* the last call: its arguments and what each object answered

vars == <<el, ec, n, last>>

\* A call record.  q/nokey/v are the arguments; st, ret, b the outcome on
\* el (b: the bool returned); cst, cret, cb the outcome on ec; prev is the
\* object el held at the key when a mutating call started (NoObj: no entry).
Call(op, nokey, q, v, r, b, cr, cb, prev) ==
  [op |-> op, nokey |-> nokey, q |-> q, v |-> v,
   st |-> r.st, ret |-> r.ret, b |-> b,
   cst |-> cr.st, cret |-> cr.ret, cb |-> cb, prev |-> prev]

Held(d, key) ==
  IF dict_contains(d, confid(key)) THEN dict_getitem(d, confid(key)) ELSE NoObj

NoCall == Raise("none")

Init ==
  /\ el = <<>>
  /\ ec = <<>>
  /\ n = 0
  /\ last = Call("init", TRUE, EmptyKw, NoObj, NoCall, FALSE, NoCall, FALSE, NoObj)

\* the places the key of a mutating call can take in a dictionary: any for a
\* new key, none to choose for a key already there
Places(d, key) ==
  IF dict_contains(d, confid(key)) THEN {1} ELSE 1..(Len(d) + 1)

\* the same place in ec, which may hold fewer keys than el
PlaceIn(d, pos) == IF pos <= Len(d) + 1 THEN pos ELSE Len(d) + 1

(***************************************************************************)
(* Mutating calls                                                          *)
(***************************************************************************)
\* el[key] = val; ec[key] = val
SetItem(key, val, pos) ==
  /\ n < MaxWrites
  /\ pos \in Places(el, key)
  /\ LET t == setitem(el, key, val, pos)
         c == ElasConf_setitem(ec, key, val, PlaceIn(ec, pos))
     IN /\ el' = t.d
        /\ ec' = c.d
        /\ last' = Call("setitem", FALSE, key, val, t.r, FALSE, c.r, FALSE, Held(el, key))
  /\ n' = n + 1

\* el.append(key, val); ec.append(key, val)
AppendCall(key, val, pos) ==
  /\ n < MaxWrites
  /\ pos \in Places(el, key)
  /\ LET t == append(el, key, val, pos)
         c == ElasConf_append(ec, key, val, PlaceIn(ec, pos))
     IN /\ el' = t.d
        /\ ec' = c.d
        /\ last' = Call("append", FALSE, key, val, t.r, FALSE, c.r, FALSE, Held(el, key))
  /\ n' = n + 1

\* el.add(key, val)
AddCall(key, val, pos) ==
  /\ n < MaxWrites
  /\ pos \in Places(el, key)
  /\ LET t == add(el, key, val, pos)
     IN /\ el' = t.d
        /\ last' = Call("add", FALSE, key, val, t.r, FALSE, NoCall, FALSE, Held(el, key))
  /\ n' = n + 1
  /\ UNCHANGED ec

(***************************************************************************)
(* Reading calls                                                           *)
(***************************************************************************)
\* el[key]; ec[key]
GetItem(key) ==
  /\ last' = Call("getitem", FALSE, key, NoObj,
                  getitem(el, key), FALSE, ElasConf_getitem(ec, key), FALSE, NoObj)
  /\ UNCHANGED <<el, ec, n>>

\* key in el; key in ec
Contains(key) ==
  /\ last' = Call("contains", FALSE, key, NoObj,
                  Ok(NoObj), ElasTag_contains(el, key),
                  Ok(NoObj), ElasConf_contains(ec, key), NoObj)
  /\ UNCHANGED <<el, ec, n>>

\* el.haskey(key); ec.haskey(key)
Haskey(key) ==
  /\ last' = Call("haskey", FALSE, key, NoObj,
                  Ok(NoObj), ElasTag_haskey(el, key),
                  Ok(NoObj), ElasConf_haskey(ec, key), NoObj)
  /\ UNCHANGED <<el, ec, n>>

\* el.all(key) or el.all()
AllCall(nokey, key) ==
  /\ nokey => key = EmptyKw
  /\ last' = Call("all", nokey, key, NoObj,
                  all(el, nokey, key, FALSE), FALSE, NoCall, FALSE, NoObj)
  /\ UNCHANGED <<el, ec, n>>

\* el.bag(key) or el.bag()
BagCall(nokey, key) ==
  /\ nokey => key = EmptyKw
  /\ last' = Call("bag", nokey, key, NoObj,
                  bag(el, nokey, key), FALSE, NoCall, FALSE, NoObj)
  /\ UNCHANGED <<el, ec, n>>

Vals == {Str(a) : a \in Atoms}

Next ==
  \/ \E key \in WriteConfigs, val \in Vals, pos \in 1..(MaxWrites + 1) :
       SetItem(key, val, pos)
  \/ \E key \in WriteConfigs, val \in Vals, pos \in 1..(MaxWrites + 1) :
       AppendCall(key, val, pos)
  \/ \E key \in WriteConfigs, val \in Vals, pos \in 1..(MaxWrites + 1) :
       AddCall(key, val, pos)
  \/ \E key \in Configs : GetItem(key)
  \/ \E key \in Configs : Contains(key)
  \/ \E key \in Configs : Haskey(key)
  \/ \E key \in Configs, nokey \in BOOLEAN : AllCall(nokey, key)
  \/ \E key \in Configs, nokey \in BOOLEAN : BagCall(nokey, key)

Spec == Init /\ [][Next]_vars

(***************************************************************************)
(* Vocabulary of the properties                                            *)
(***************************************************************************)
\* the pair-set of a configuration given as a mapping, and of a stored key
PairSet(kw) == {<<a, kw[a]>> : a \in DOMAIN kw}
KeyPairs(k) == {k[i] : i \in 1..Len(k)}

\* the entries of d whose key is included in the query q
Qualifying(d, q) == {i \in 1..Len(d) : KeyPairs(d[i].k) \subseteq PairSet(q)}

\* the entries of d stored under exactly the pairs of q
ExactEntries(d, q) == {i \in 1..Len(d) : KeyPairs(d[i].k) = PairSet(q)}

\* a most specific qualifying entry of d for q holds the object o
MostSpecificHolds(d, q, o) ==
  \E i \in Qualifying(d, q) :
    /\ d[i].v = o
    /\ \A j \in Qualifying(d, q) :
         Cardinality(KeyPairs(d[j].k)) <= Cardinality(KeyPairs(d[i].k))

\* the object a dictionary d holds under exactly the pairs of q
HeldUnder(d, q) == d[CHOOSE i \in ExactEntries(d, q) : TRUE].v

\* what the promotion protocol of append leaves at q, from the store d before
AppendOutcome(d, q, v) ==
  IF ExactEntries(d, q) = {} THEN PyList(<<AsItem(v)>>)
  ELSE IF HeldUnder(d, q).t = "list"
    THEN PyList(HeldUnder(d, q).l \o <<AsItem(v)>>)
    ELSE PyList(<<AsItem(HeldUnder(d, q)), AsItem(v)>>)

\* the entries of d whose key includes the query q
Including(d, q) == {i \in 1..Len(d) : PairSet(q) \subseteq KeyPairs(d[i].k)}

\* the enumerations of a finite set
Orderings(S) ==
  {f \in [1..Cardinality(S) -> S] : \A i, j \in DOMAIN f : f[i] = f[j] => i = j}

\* the sequences of items an object may contribute when flattened
Flattened(o) ==
  IF o.t = "list" THEN {o.l}
  ELSE IF o.t = "set"
    THEN {[i \in DOMAIN f |-> Item("str", {f[i]})] : f \in Orderings(o.m)}
    ELSE {<<AsItem(o)>>}

\* the concatenations of one flattening per entry, entries taken in order ix
RECURSIVE Concats(_, _)
Concats(d, ix) ==
  IF Len(ix) = 0 THEN {<<>>}
  ELSE {h \o t : h \in Flattened(d[Head(ix)].v), t \in Concats(d, Tail(ix))}

AllOutcomes(d, q) ==
  UNION {Concats(d, ix) : ix \in Orderings(Including(d, q))}

\* the string values found when flattening the object o: the items of a
\* list (those of a set held as an item too), the members of a set, o itself
FlatAtoms(o) ==
  IF o.t = "list" THEN UNION {o.l[j].m : j \in 1..Len(o.l)} ELSE o.m

\* the dictionaries that hold the entries of d in another iteration order
Reorderings(d) ==
  {[i \in 1..Len(d) |-> d[f[i]]] : f \in Orderings(1..Len(d))}

\* the key k has its pairs in increasing order of attribute name, each
\* attribute name once
Canonical(k) ==
  \A i \in 1..(Len(k) - 1) : StrOrd[k[i][1]] < StrOrd[k[i + 1][1]]

\* no two entries of d are stored under the same pairs
OneEntryPerConfig(d) ==
  \A i, j \in 1..Len(d) : KeyPairs(d[i].k) = KeyPairs(d[j].k) => i = j

\* the entries of d stored under other pairs than those of q, as a set
OtherEntries(d, q) == {d[i] : i \in 1..Len(d) \ ExactEntries(d, q)}

\* the configuration, as a mapping, whose pairs are those of the key k
KwOf(k) ==
  [a \in {p[1] : p \in KeyPairs(k)} |->
     (CHOOSE p \in KeyPairs(k) : p[1] = a)[2]]

(***************************************************************************)
(* C1: whenever el[q] (or ec[q]) returns, it returns the object stored     *)
(* under a key whose pair-set is included in q, and no stored key included *)
(* in q has more pairs than that key.                                      *)
(***************************************************************************)
C1_MostSpecific ==
  last.op = "getitem" =>
    /\ last.st = "ok" => MostSpecificHolds(el, last.q, last.ret)
    /\ last.cst = "ok" => MostSpecificHolds(ec, last.q, last.cret)

\* el holds A, B, C with A included in B included in C, under three
\* different objects, and el[C] has just returned the object of C
C1_Witness ==
  /\ last.op = "getitem" /\ last.st = "ok"
  /\ \E a, b, c \in 1..Len(el) :
       /\ KeyPairs(el[a].k) \subseteq KeyPairs(el[b].k)
       /\ KeyPairs(el[a].k) # KeyPairs(el[b].k)
       /\ KeyPairs(el[b].k) \subseteq KeyPairs(el[c].k)
       /\ KeyPairs(el[b].k) # KeyPairs(el[c].k)
       /\ KeyPairs(el[c].k) = PairSet(last.q)
       /\ el[a].v # el[c].v /\ el[b].v # el[c].v /\ el[a].v # el[b].v
       /\ last.ret = el[c].v

(***************************************************************************)
(* C2: el[q] (and ec[q]) raises KeyError exactly when no stored key has    *)
(* its pair-set included in that of q, and a get that raises changes       *)
(* neither dictionary.                                                     *)
(***************************************************************************)
C2_KeyErrorIffNoSubset ==
  [][last'.op = "getitem" =>
       /\ (last'.st = "KeyError") <=> (Qualifying(el, last'.q) = {})
       /\ (last'.cst = "KeyError") <=> (Qualifying(ec, last'.q) = {})
       /\ last'.st \in {"ok", "KeyError"} /\ last'.cst \in {"ok", "KeyError"}
       /\ el' = el /\ ec' = ec]_vars

\* el[q] has just raised KeyError on a store that is not empty, every key of
\* which has an attribute that q lacks
C2_Witness ==
  /\ last.op = "getitem" /\ last.st = "KeyError" /\ last.cst = "KeyError"
  /\ Len(el) >= 2
  /\ \E a \in Attrs :
       /\ a \notin DOMAIN last.q
       /\ \A i \in 1..Len(el) : \E p \in KeyPairs(el[i].k) : p[1] = a

(***************************************************************************)
(* C3: `q in el` is true if and only if el[q] does not raise, also when    *)
(* the matching entry is stored under the empty configuration.             *)
(***************************************************************************)
C3_ContainsIffGet ==
  last.op = "contains" => (last.b <=> (getitem(el, last.q).st = "ok"))

(***************************************************************************)
(* C4: haskey(q), of ElasTag and of ElasConf, is true if and only if the   *)
(* pairs of q are exactly the pairs of a stored key.                       *)
(***************************************************************************)
C4_HaskeyExact ==
  last.op = "haskey" =>
    /\ last.b <=> (ExactEntries(el, last.q) # {})
    /\ last.cb <=> (ExactEntries(ec, last.q) # {})

(***************************************************************************)
(* C5: after el[K] = V (ec[K] = V) the dictionary has exactly one entry    *)
(* under the pairs of K, it holds V whatever was there before, and el[K]   *)
(* (ec[K]) returns V.                                                      *)
(***************************************************************************)
C5_SetThenGet ==
  last.op = "setitem" =>
    /\ \E i \in 1..Len(el) : ExactEntries(el, last.q) = {i} /\ el[i].v = last.v
    /\ \E i \in 1..Len(ec) : ExactEntries(ec, last.q) = {i} /\ ec[i].v = last.v
    /\ getitem(el, last.q) = Ok(last.v)
    /\ ElasConf_getitem(ec, last.q) = Ok(last.v)

\* el[K] = V has just replaced a set at K by the string V, while a key that
\* includes K and has more pairs is stored
C5_Witness ==
  /\ last.op = "setitem" /\ last.prev.t = "set" /\ last.v \notin {last.prev}
  /\ \E i \in 1..Len(el) :
       /\ PairSet(last.q) \subseteq KeyPairs(el[i].k)
       /\ PairSet(last.q) # KeyPairs(el[i].k)

(***************************************************************************)
(* C6: append(K, v) stores at K the list [v] when K had no entry, the      *)
(* stored list with v added at its end when K held a list, and the list    *)
(* [p, v] when K held any other object p; it returns an object equal to    *)
(* the one stored at K after the call.                                     *)
(***************************************************************************)
C6_AppendProtocol ==
  [][last'.op = "append" =>
       /\ last'.st = "ok" /\ last'.cst = "ok"
       /\ Cardinality(ExactEntries(el', last'.q)) = 1
       /\ Cardinality(ExactEntries(ec', last'.q)) = 1
       /\ HeldUnder(el', last'.q) = AppendOutcome(el, last'.q, last'.v)
       /\ HeldUnder(ec', last'.q) = AppendOutcome(ec, last'.q, last'.v)
       /\ last'.ret = HeldUnder(el', last'.q)
       /\ last'.cret = HeldUnder(ec', last'.q)]_vars

\* a set stored by add has been promoted by a first append and extended by
\* this second one: K now holds [the set, x1, x2]
C6_Witness ==
  /\ last.op = "append" /\ last.st = "ok"
  /\ last.prev.t = "list" /\ Len(last.prev.l) = 2 /\ last.prev.l[1].t = "set"
  /\ last.ret = PyList(last.prev.l \o <<AsItem(last.v)>>)
  /\ HeldUnder(el, last.q) = last.ret

(***************************************************************************)
(* C7: add(K, v) stores at K the set {v} when K had no entry, the stored   *)
(* set with v inserted when K held a set, and a set made of p and v when   *)
(* K held any other object p, be it a single object or a list; it returns  *)
(* an object equal to the one stored at K after the call.                  *)
(***************************************************************************)
C7_AddProtocol ==
  [][last'.op = "add" =>
       /\ last'.st = "ok"
       /\ Cardinality(ExactEntries(el', last'.q)) = 1
       /\ HeldUnder(el', last'.q).t = "set"
       /\ AtomOf(last'.v) \in HeldUnder(el', last'.q).m
       /\ ExactEntries(el, last'.q) = {} =>
            HeldUnder(el', last'.q) = PySet({AtomOf(last'.v)})
       /\ (ExactEntries(el, last'.q) # {} /\ HeldUnder(el, last'.q).t # "list") =>
            HeldUnder(el', last'.q) =
              PySet(HeldUnder(el, last'.q).m \cup {AtomOf(last'.v)})
       /\ last'.ret = HeldUnder(el', last'.q)]_vars

(***************************************************************************)
(* C8: add is idempotent: in every reachable store, for every key and      *)
(* value, a second add(K, v) right after a first one leaves the store as   *)
(* the first one left it and has the same outcome (the same set returned). *)
(***************************************************************************)
C8_AddIdempotent ==
  \A key \in WriteConfigs, val \in Vals :
    \A pos \in Places(el, key) :
      LET once == add(el, key, val, pos)
          twice == add(once.d, key, val, 1)
      IN twice.d = once.d /\ twice.r = once.r

\* the second of two add(K, v) on a fresh store: the set still has one member
C8_Witness ==
  /\ last.op = "add" /\ last.st = "ok" /\ n = 2 /\ Len(el) = 1
  /\ last.prev = PySet({AtomOf(last.v)})
  /\ last.ret = last.prev /\ Cardinality(last.ret.m) = 1
  /\ HeldUnder(el, last.q) = last.ret

(***************************************************************************)
(* C9: append, add, all, bag, `in` and haskey never raise.                 *)
(***************************************************************************)
C9_Total ==
  /\ last.op \in {"append", "add", "all", "bag", "contains", "haskey"} =>
       last.st = "ok"
  /\ last.op \in {"append", "contains", "haskey"} => last.cst = "ok"

(***************************************************************************)
(* C10: all(q) returns a list made of the flattened contents of exactly    *)
(* the entries whose key includes q (every entry when q is omitted): the   *)
(* items of each such list in order, the members of each such set, each    *)
(* other object itself; duplicates are kept.                               *)
(***************************************************************************)
C10_AllFlattens ==
  last.op = "all" =>
    /\ last.st = "ok" /\ last.ret.t = "list"
    /\ last.ret.l \in AllOutcomes(el, IF last.nokey THEN EmptyKw ELSE last.q)

(***************************************************************************)
(* C11: bag(q) returns the set, without duplicates, of the values obtained *)
(* by flattening the lists, sets and single objects of exactly the entries *)
(* whose key includes q (every entry when q is omitted).                   *)
(***************************************************************************)
C11_BagFlattens ==
  last.op = "bag" =>
    LET q == IF last.nokey THEN EmptyKw ELSE last.q
    IN /\ last.st = "ok" /\ last.ret.t = "set"
       /\ last.ret.m = UNION {FlatAtoms(el[i].v) : i \in Including(el, q)}

(***************************************************************************)
(* C12: the value el[q] resolves to does not depend on the order in which  *)
(* the entries were stored: a store holding the same entries in any other  *)
(* iteration order gives the same result for every query.                  *)
(***************************************************************************)
C12_TieBreakOrderFree ==
  \A d2 \in Reorderings(el) : \A q \in Configs : getitem(d2, q) = getitem(el, q)

(***************************************************************************)
(* C13: no call removes an entry: a configuration for which haskey is true *)
(* keeps it true, and a query for which item access succeeds keeps         *)
(* succeeding, across every call on el; a call that leaves el as it was    *)
(* keeps them trivially.                                                   *)
(***************************************************************************)
C13_NoEviction ==
  [][el' # el =>
       \A q \in Configs :
         /\ ElasTag_haskey(el, q) => ElasTag_haskey(el', q)
         /\ getitem(el, q).st = "ok" => getitem(el', q).st = "ok"]_vars

\* the third write has just replaced the object of a key stored before,
\* and both that key and the other stored key are still there and resolve
C13_Witness ==
  /\ last.op = "setitem" /\ n = 3 /\ Len(el) = 2
  /\ last.prev # NoObj /\ last.prev # last.v
  /\ ElasTag_haskey(el, last.q)
  /\ \E q \in Configs :
       /\ ElasTag_haskey(el, q) /\ confid(q) # confid(last.q)
       /\ getitem(el, q).st = "ok" /\ getitem(el, q).ret # last.v

(***************************************************************************)
(* C14: every stored key is canonical (pairs sorted by attribute name, no  *)
(* name twice), no two entries are stored under the same pairs, and a      *)
(* write addresses the one entry under its pairs in whatever order the     *)
(* pairs of its configuration are given.                                   *)
(***************************************************************************)
C14_CanonicalKeys ==
  /\ \A i \in 1..Len(el) : Canonical(el[i].k)
  /\ \A i \in 1..Len(ec) : Canonical(ec[i].k)
  /\ OneEntryPerConfig(el) /\ OneEntryPerConfig(ec)
  /\ (last.op \in {"setitem", "append", "add"} /\ last.st = "ok") =>
       \A ks \in Orderings(DOMAIN last.q) :
         \E i \in 1..Len(el) :
           /\ el[i].k = confid_of(ks, last.q)
           /\ ExactEntries(el, last.q) = {i}
           /\ last.op = "setitem" => el[i].v = last.v
           /\ last.op \in {"append", "add"} => el[i].v = last.ret

\* the third write under the same two pairs: the three calls have built one
\* entry, which holds what the last one returned
C14_Witness ==
  /\ last.op = "append" /\ n = 3 /\ Len(el) = 1
  /\ Cardinality(DOMAIN last.q) = 2
  /\ last.prev.t = "list" /\ Len(last.ret.l) = 3
  /\ el[1].v = last.ret /\ Canonical(el[1].k) /\ Len(el[1].k) = 2

(***************************************************************************)
(* Item assignment of any object: a str, or a list or set of the caller    *)
(***************************************************************************)
ObjVals == Vals \cup {PyList(<<AsItem(Str("a"))>>), PySet({"a"})}

NextObj ==
  \/ \E key \in WriteConfigs, val \in ObjVals, pos \in 1..(MaxWrites + 1) :
       SetItem(key, val, pos)
  \/ \E key \in WriteConfigs, val \in Vals, pos \in 1..(MaxWrites + 1) :
       AppendCall(key, val, pos)
  \/ \E key \in WriteConfigs, val \in Vals, pos \in 1..(MaxWrites + 1) :
       AddCall(key, val, pos)
  \/ \E key \in Configs : GetItem(key)

SpecObj == Init /\ [][NextObj]_vars

(***************************************************************************)
(* C15: after el[K] = V, whatever object V is (a list or a set too), a     *)
(* following append(K, W) returns the two-item list [V, W] and a following *)
(* add(K, W) returns a set made of V and W: V is not extended or unpacked. *)
(***************************************************************************)
C15_OpaqueValues ==
  [][(/\ last.op = "setitem"
      /\ last'.op \in {"append", "add"}
      /\ PairSet(last'.q) = PairSet(last.q)) =>
       /\ last'.st = "ok"
       /\ last'.op = "append" =>
            last'.ret = PyList(<<AsItem(last.v), AsItem(last'.v)>>)
       /\ last'.op = "add" =>
            /\ last'.ret.t = "set"
            /\ AtomOf(last'.v) \in last'.ret.m
            /\ last.v.t = "str" => last'.ret.m = {AtomOf(last.v), AtomOf(last'.v)}
            /\ last.v.t # "str" =>
                 last'.ret.m \cap FlatAtoms(last.v) \subseteq {AtomOf(last'.v)}]_vars

(***************************************************************************)
(* C16: item assignment, append and add at K leave every entry stored      *)
(* under other pairs than those of K as it was, key and object, and create *)
(* no entry under other pairs; item access, `in`, haskey, all and bag      *)
(* leave both dictionaries, and so every stored list and set, unchanged.   *)
(***************************************************************************)
C16_Frame ==
  [][/\ last'.op \in {"setitem", "append", "add"} =>
          /\ OtherEntries(el', last'.q) = OtherEntries(el, last'.q)
          /\ OtherEntries(ec', last'.q) = OtherEntries(ec, last'.q)
     /\ last'.op \in {"getitem", "contains", "haskey", "all", "bag"} =>
          el' = el /\ ec' = ec]_vars

\* append has just created the entry of K while an entry under a proper
\* subset of the pairs of K holds a list, which is as it was
C16_Witness ==
  /\ last.op = "append" /\ last.prev = NoObj /\ n = 3
  /\ \E i \in 1..Len(el) :
       /\ KeyPairs(el[i].k) \subseteq PairSet(last.q)
       /\ KeyPairs(el[i].k) # PairSet(last.q)
       /\ el[i].v.t = "list" /\ Len(el[i].v.l) = 2
  /\ HeldUnder(el, last.q) = PyList(<<AsItem(last.v)>>)

(***************************************************************************)
(* C17: for every stored key K, el[K] (ec[K]) returns the object stored at *)
(* K itself, whatever other entries exist; after append or add at K it is  *)
(* the list or set the call returned.                                      *)
(***************************************************************************)
C17_ExactHitWins ==
  /\ \A i \in 1..Len(el) : getitem(el, KwOf(el[i].k)) = Ok(el[i].v)
  /\ \A i \in 1..Len(ec) : ElasConf_getitem(ec, KwOf(ec[i].k)) = Ok(ec[i].v)
  /\ (last.op \in {"append", "add"} /\ last.st = "ok") =>
       getitem(el, last.q) = Ok(last.ret)
  /\ last.op = "append" => ElasConf_getitem(ec, last.q) = Ok(last.cret)

\* add has just returned the set of K while a less specific entry and an
\* entry that K does not include are stored under other objects
C17_Witness ==
  /\ last.op = "add" /\ last.st = "ok" /\ Len(el) = 3
  /\ getitem(el, last.q) = Ok(last.ret)
  /\ \E i, j \in 1..Len(el) :
       /\ KeyPairs(el[i].k) \subseteq PairSet(last.q)
       /\ KeyPairs(el[i].k) # PairSet(last.q)
       /\ ~(KeyPairs(el[j].k) \subseteq PairSet(last.q))
       /\ el[i].v # last.ret /\ el[j].v # last.ret

(***************************************************************************)
(* C18: for every query q that resolves, a call that changes el leaves q   *)
(* resolving, to a stored key with at least as many pairs as the key it    *)
(* resolved to before.                                                     *)
(***************************************************************************)
C18_SpecificityGrows ==
  [][el' # el =>
       \A q \in Configs :
         translate_key(el, q) # None =>
           /\ translate_key(el', q) # None
           /\ Len(translate_key(el', q).k) >= Len(translate_key(el, q).k)]_vars

\* item assignment has just created the key that a query with more pairs
\* now resolves to, while a less specific key that the query resolved to
\* before is still stored
C18_Witness ==
  /\ last.op = "setitem" /\ last.prev = NoObj
  /\ \E q \in Configs :
       /\ PairSet(q) # PairSet(last.q)
       /\ translate_key(el, q) = [found |-> TRUE, k |-> confid(last.q)]
       /\ \E i \in 1..Len(el) :
            /\ KeyPairs(el[i].k) \subseteq PairSet(q)
            /\ Len(el[i].k) < Len(confid(last.q))

(***************************************************************************)
(* The shared core of the two classes: item assignment, append and item    *)
(* access, with str, list and set values assigned                          *)
(***************************************************************************)
NextCore ==
  \/ \E key \in WriteConfigs, val \in ObjVals, pos \in 1..(MaxWrites + 1) :
       SetItem(key, val, pos)
  \/ \E key \in WriteConfigs, val \in Vals, pos \in 1..(MaxWrites + 1) :
       AppendCall(key, val, pos)
  \/ \E key \in Configs : GetItem(key)

SpecCore == Init /\ [][NextCore]_vars

(***************************************************************************)
(* C19: driven by the same item assignments and appends, ElasConf and      *)
(* ElasTag hold the same entries in the same order, every append returns   *)
(* the same object from both, and every item access gives the same object  *)
(* or raises KeyError in both.                                             *)
(***************************************************************************)
C19_CoreEquivalent ==
  /\ el = ec
  /\ last.op \in {"append", "getitem"} =>
       /\ last.st = last.cst
       /\ last.ret = last.cret
  /\ \A q \in Configs : getitem(el, q) = ElasConf_getitem(ec, q)

\* after three writes, an item access resolved elastically to a list built
\* by append, with a less specific key stored as well
C19_Witness ==
  /\ n = MaxWrites
  /\ last.op = "getitem" /\ last.st = "ok"
  /\ isinstance(last.ret, "list") /\ Len(last.ret.l) >= 2
  /\ last.cret = last.ret
  /\ ~ElasTag_haskey(el, last.q)
  /\ Len(ec) >= 2

====
